---- MODULE Spec2Model ----
(***************************************************************************)
(* Model of examples/2D_detonation/ic2d.py: the generator that reads the   *)
(* 1-D reactive shock tube dataset and writes ic_decl.f90 (one static      *)
(* array per destination variable) and ic_def.f90 (the case (666) branch   *)
(* with the clamped lookups).                                              *)
(*                                                                         *)
(* Floating-point samples are held in tenths (the integer 25 is 2.5) and   *)
(* rendered to decimal text by PyStr.  A file is the sequence of the       *)
(* strings written to it; its bytes are their concatenation (Content).     *)
(***************************************************************************)
EXTENDS Integers, Sequences, FiniteSets, TLC

VARIABLES
    disk,      \* reference dataset on disk: step -> path -> samples (tenths)
    loaded,    \* case object: variable name -> path, set by load_variable
    args,      \* parsed command line (args.scale)
    pc,        \* position of the script
    var_wrt,   \* loop variable of both passes
    var_init,  \* translated source id
    nx,        \* the script's global nx
    elems,     \* rendered elements of the current array
    idx,       \* enumerate() index of the element loop (0-based)
    fs,        \* file system: path -> sequence of strings written
    reads,     \* log of the calls made to the dataset collaborator
    err,       \* the exception that ended the run, if any
    runNo,     \* number of the current invocation of the script
    prev       \* outcome of the previous invocation (history)

vars == <<disk, loaded, args, pc, var_wrt, var_init, nx, elems, idx, fs,
          reads, err, runNo, prev>>

-----------------------------------------------------------------------------
(* Program constants *)

num_eqns == 15
num_dims == 2
ProbeIndex == 14694
DeclPath == "examples/2D_detonation/ic_decl.f90"
DefPath == "examples/2D_detonation/ic_def.f90"

K == num_eqns + num_dims - 1

(* Bounds of the model *)

MaxNx == 3      \* longest sample array of a dataset
MaxSeed == 1    \* datasets differ in their sample values by a seed 0..MaxSeed
MaxRuns == 2    \* invocations of the script on the same dataset
MaxCell == 4    \* local cell indices 0..MaxCell of the destination grid
MaxXq == 4      \* x_cc(0)/0.12 ranges over 0, 1/XqDen, ..., MaxXq/XqDen
XqDen == 2

Scales == {1, 2}   \* values of --scale

Unset == -1     \* a name not yet assigned

-----------------------------------------------------------------------------
(* Python helpers *)

incrange(a, b) == a..b

PyRange(a, b) == a..(b - 1)

Abs(n) == IF n < 0 THEN -n ELSE n

\* str(x) of a float x with one decimal, x given in tenths: 25 -> "2.5"
PyStr(t) ==
    (IF t < 0 THEN "-" ELSE "") \o ToString(Abs(t) \div 10) \o "."
        \o ToString(Abs(t) % 10)

RECURSIVE Join(_)
Join(chunks) ==
    IF chunks = <<>> THEN "" ELSE Head(chunks) \o Join(Tail(chunks))

-----------------------------------------------------------------------------
(* The reference dataset and the case object (mfc.viz.Case) *)

Name(n) == ToString(n)

Path(n) == "prim." \o ToString(n)

FaultKinds == {"none", "absent", "noProbe", "noStep0", "len0", "lenP", "lenBoth"}

\* the source fields whose fault the model draws: the first, the one read
\* again for destination 3, its successor and the last
FaultFields == {1, 2, 3, K - 1}

ValueAt(seed, s, f, i) ==
    LET mag == 10 * (MaxNx * (f - 1) + i) + 5 * seed
    IN  IF (s = 0) # (seed % 2 = 1) THEN -mag ELSE mag

Dataset(nx0, kind, ff, devLen, seed) ==
    LET steps == CASE kind = "noProbe" -> {0}
                   [] kind = "noStep0" -> {ProbeIndex}
                   [] OTHER -> {0, ProbeIndex}
        fields == IF kind = "absent" THEN (1..(K - 1)) \ {ff} ELSE 1..(K - 1)
        len(s, f) ==
            IF f = ff /\ (\/ kind = "len0" /\ s = 0
                          \/ kind = "lenP" /\ s = ProbeIndex
                          \/ kind = "lenBoth")
            THEN devLen ELSE nx0
    IN  [s \in steps |->
            [p \in {Path(f) : f \in fields} |->
                LET f == CHOOSE g \in fields : Path(g) = p
                IN  [i \in 1..len(s, f) |-> ValueAt(seed, s, f, i)]]]

\* every array of a dataset has at least one sample (a grid has a cell)
Datasets ==
    {Dataset(nx0, kind, ff, devLen, seed) :
        nx0 \in 1..MaxNx, kind \in FaultKinds, ff \in FaultFields,
        devLen \in 1..MaxNx, seed \in 0..MaxSeed}

\* load_variable(name, path) succeeds when every step has the field's file
CanLoad(path) == \A s \in DOMAIN disk : path \in DOMAIN disk[s]

\* get_data(): step -> name -> samples, for the variables loaded so far
get_data == [s \in DOMAIN disk |-> [n \in DOMAIN loaded |-> disk[s][loaded[n]]]]

HasData(s, n) == s \in DOMAIN disk /\ n \in DOMAIN loaded

-----------------------------------------------------------------------------
(* Text emitted by the script *)

DeclHeader == "integer :: i_offset\n"

DeclLine(v, hi) ==
    "real(kind(0d0)) :: var" \o ToString(v) \o "(0:" \o ToString(hi)
        \o ") = [ &\n"

ElemLine(element, last) ==
    IF last THEN element \o " &\n" ELSE element \o ", &\n"

DeclClose == "]\n"

CaseLine == "case (666)\n"

OffsetLine(hi) ==
    "    i_offset = int(x_cc(0)/0.12d0*" \o ToString(hi) \o ")\n"

AssignLine(v, hi) ==
    "    q_prim_vf(" \o ToString(v) \o ")%sf(i, j, 0) = var" \o ToString(v)
        \o "(min(i_offset+i, " \o ToString(hi) \o "))\n"

-----------------------------------------------------------------------------
(* The script *)

DeclIds == incrange(1, num_eqns + num_dims - 1)

\* the branch loop written with incrange, like the declaration loop
BranchIds_Inclusive == incrange(1, num_eqns + num_dims - 1)

BranchIds == PyRange(1, num_eqns + num_dims - 1)

\* the translation with <= for <: destinations 3 and 4 both read source 3
SourceId_OffByOne(v) == IF v <= 3 THEN v ELSE v - 1

SourceId(v) == IF v < 3 THEN v ELSE v - 1

\* the zero-fill test on the wrong id
IsSynthetic_WrongId(v) == ~(v # 4)

IsSynthetic(v) == ~(v # 3)

\* open(path, "a"): an existing file keeps its content
OpenW_Append(path) == IF path \in DOMAIN fs THEN fs ELSE (path :> <<>>) @@ fs

OpenW(path) == (path :> <<>>) @@ fs

Write(files, path, s) == [files EXCEPT ![path] = Append(@, s)]

NoErr == [kind |-> "none", key |-> ""]

Raise(kind, key) ==
    /\ pc' = "failed"
    /\ err' = [kind |-> kind, key |-> key]

Init ==
    /\ disk \in Datasets
    /\ loaded = <<>>
    /\ args = [scale |-> Unset]
    /\ pc = "start"
    /\ var_wrt = Unset
    /\ var_init = Unset
    /\ nx = Unset
    /\ elems = <<>>
    /\ idx = Unset
    /\ fs = <<>>
    /\ reads = <<>>
    /\ err = NoErr
    /\ runNo = 1
    /\ prev = [pc |-> "none", fs |-> <<>>, scale |-> Unset]

\* lines 5-14: parse --scale, open the case
ParseArgs ==
    /\ pc = "start"
    /\ \E scale \in Scales : args' = [scale |-> scale]
    /\ loaded' = <<>>
    /\ pc' = "open_decl"
    /\ UNCHANGED <<disk, var_wrt, var_init, nx, elems, idx, fs, reads, err,
                   runNo, prev>>

\* lines 19-21: open ic_decl.f90 for writing, first line, first id
OpenDecl ==
    /\ pc = "open_decl"
    /\ fs' = Write(OpenW(DeclPath), DeclPath, DeclHeader)
    /\ var_wrt' = 1
    /\ pc' = "load"
    /\ UNCHANGED <<disk, loaded, args, var_init, nx, elems, idx, reads, err,
                   runNo, prev>>

\* lines 22-23: translate the id and load the variable
LoadVariable ==
    /\ pc = "load"
    /\ var_init' = SourceId(var_wrt)
    /\ reads' = Append(reads, [op |-> "load_variable", v |-> var_wrt,
                               name |-> Name(var_init'), step |-> Unset])
    /\ IF CanLoad(Path(var_init'))
       THEN /\ loaded' = (Name(var_init') :> Path(var_init')) @@ loaded
            /\ pc' = "get_nx"
            /\ UNCHANGED err
       ELSE /\ Raise("FileNotFoundError", Path(var_init'))
            /\ UNCHANGED loaded
    /\ UNCHANGED <<disk, args, var_wrt, nx, elems, idx, fs, runNo, prev>>

\* line 25: nx from the step-0 array of the variable just loaded
GetNx ==
    /\ pc = "get_nx"
    /\ reads' = Append(reads, [op |-> "get_data", v |-> var_wrt,
                               name |-> Name(var_init), step |-> 0])
    /\ IF HasData(0, Name(var_init))
       THEN /\ nx' = Len(get_data[0][Name(var_init)])
            /\ pc' = "get_elems"
            /\ UNCHANGED err
       ELSE /\ Raise("KeyError", ToString(0))
            /\ UNCHANGED nx
    /\ UNCHANGED <<disk, loaded, args, var_wrt, var_init, elems, idx, fs,
                   runNo, prev>>

\* lines 27-30: the elements, from the probe step or nx zeros
GetElems ==
    /\ pc = "get_elems"
    /\ IF ~IsSynthetic(var_wrt)
       THEN /\ reads' = Append(reads, [op |-> "get_data", v |-> var_wrt,
                                       name |-> Name(var_init),
                                       step |-> ProbeIndex])
            /\ IF HasData(ProbeIndex, Name(var_init))
               THEN /\ elems' =
                         LET xs == get_data[ProbeIndex][Name(var_init)]
                         IN  [i \in 1..Len(xs) |-> PyStr(xs[i])]
                    /\ pc' = "write_decl"
                    /\ UNCHANGED err
               ELSE /\ Raise("KeyError", ToString(ProbeIndex))
                    /\ UNCHANGED elems
       ELSE \* [0.0] * nx, each rendered "0.0" by the f-string of line 35/37
            /\ elems' = [i \in 1..nx |-> PyStr(0)]
            /\ pc' = "write_decl"
            /\ UNCHANGED <<reads, err>>
    /\ UNCHANGED <<disk, loaded, args, var_wrt, var_init, nx, idx, fs, runNo,
                   prev>>

\* line 32: the array's declaration line
WriteDecl ==
    /\ pc = "write_decl"
    /\ fs' = Write(fs, DeclPath, DeclLine(var_wrt, nx - 1))
    /\ idx' = 0
    /\ pc' = IF elems = <<>> THEN "close_array" ELSE "write_elem"
    /\ UNCHANGED <<disk, loaded, args, var_wrt, var_init, nx, elems, reads,
                   err, runNo, prev>>

\* lines 33-37: one element per line, the last without a comma
WriteElement ==
    /\ pc = "write_elem"
    /\ fs' = Write(fs, DeclPath,
                   ElemLine(elems[idx + 1], idx = Len(elems) - 1))
    /\ idx' = idx + 1
    /\ pc' = IF idx + 1 < Len(elems) THEN "write_elem" ELSE "close_array"
    /\ UNCHANGED <<disk, loaded, args, var_wrt, var_init, nx, elems, reads,
                   err, runNo, prev>>

\* line 38, then the next id of line 21 or the end of the with block
CloseArray ==
    /\ pc = "close_array"
    /\ fs' = Write(fs, DeclPath, DeclClose)
    /\ IF var_wrt + 1 \in DeclIds
       THEN var_wrt' = var_wrt + 1 /\ pc' = "load"
       ELSE var_wrt' = var_wrt /\ pc' = "open_def"
    /\ UNCHANGED <<disk, loaded, args, var_init, nx, elems, idx, reads, err,
                   runNo, prev>>

\* lines 40-43: open ic_def.f90, the branch header and the offset
OpenDef ==
    /\ pc = "open_def"
    /\ fs' = Write(Write(OpenW(DefPath), DefPath, CaseLine), DefPath,
                   OffsetLine(nx - 1))
    /\ IF 1 \in BranchIds
       THEN var_wrt' = 1 /\ pc' = "write_assign"
       ELSE var_wrt' = var_wrt /\ pc' = "done"
    /\ UNCHANGED <<disk, loaded, args, var_init, nx, elems, idx, reads, err,
                   runNo, prev>>

\* lines 43-44: one clamped assignment per id of the branch pass
WriteAssign ==
    /\ pc = "write_assign"
    /\ fs' = Write(fs, DefPath, AssignLine(var_wrt, nx - 1))
    /\ IF var_wrt + 1 \in BranchIds
       THEN var_wrt' = var_wrt + 1 /\ pc' = "write_assign"
       ELSE var_wrt' = var_wrt /\ pc' = "done"
    /\ UNCHANGED <<disk, loaded, args, var_init, nx, elems, idx, reads, err,
                   runNo, prev>>

\* the script is invoked again: a fresh process over the same dataset and
\* the files the previous invocation left
Rerun ==
    /\ pc \in {"done", "failed"}
    /\ runNo < MaxRuns
    /\ prev' = [pc |-> pc, fs |-> fs, scale |-> args.scale]
    /\ runNo' = runNo + 1
    /\ loaded' = <<>>
    /\ args' = [scale |-> Unset]
    /\ pc' = "start"
    /\ var_wrt' = Unset
    /\ var_init' = Unset
    /\ nx' = Unset
    /\ elems' = <<>>
    /\ idx' = Unset
    /\ reads' = <<>>
    /\ err' = NoErr
    /\ UNCHANGED <<disk, fs>>

Next ==
    \/ ParseArgs
    \/ OpenDecl
    \/ LoadVariable
    \/ GetNx
    \/ GetElems
    \/ WriteDecl
    \/ WriteElement
    \/ CloseArray
    \/ OpenDef
    \/ WriteAssign
    \/ Rerun

Spec == Init /\ [][Next]_vars

-----------------------------------------------------------------------------
(* Reading the two artifacts back *)

Exists(path) == path \in DOMAIN fs

Lines(files, path) == IF path \in DOMAIN files THEN files[path] ELSE <<>>

Content(files, path) == Join(Lines(files, path))

ArtifactA == Lines(fs, DeclPath)

ArtifactB == Lines(fs, DefPath)

His == (-1)..(MaxNx - 1)

Min(a, b) == IF a < b THEN a ELSE b

\* positions of the declaration lines of var<v> in artifact A
ArrayStarts(v) ==
    LET heads == {DeclLine(v, hi) : hi \in His}
        a == ArtifactA
    IN  {p \in 1..Len(a) : a[p] \in heads}

ArrayStart(v) == CHOOSE p \in ArrayStarts(v) : TRUE

\* declared upper bound of var<v>(0:hi)
DeclHi(v) == CHOOSE hi \in His : ArtifactA[ArrayStart(v)] = DeclLine(v, hi)

\* the element lines of var<v>: from its declaration to the closing bracket
ArrayElems(v) ==
    LET p == ArrayStart(v)
        q == CHOOSE c \in (p + 1)..Len(ArtifactA) :
                 /\ ArtifactA[c] = DeclClose
                 /\ \A d \in (p + 1)..(c - 1) : ArtifactA[d] # DeclClose
    IN  SubSeq(ArtifactA, p + 1, q - 1)

\* line holds the literal of sample t (tenths), with or without the comma
ElemIs(line, t) ==
    line = ElemLine(PyStr(t), TRUE) \/ line = ElemLine(PyStr(t), FALSE)

\* the bound written in the i_offset line of artifact B
OffsetHi == CHOOSE hi \in His : ArtifactB[2] = OffsetLine(hi)

\* positions of the assignments to q_prim_vf(v) in artifact B
AssignPositions(v) ==
    LET stmts == {AssignLine(v, hi) : hi \in His}
        b == ArtifactB
    IN  {p \in 1..Len(b) : b[p] \in stmts}

\* the clamp bound written in the assignment of q_prim_vf(v)
AssignHi(v) ==
    CHOOSE hi \in His :
        \E p \in AssignPositions(v) : ArtifactB[p] = AssignLine(v, hi)

\* Fortran int(): truncation toward zero of a / b, b > 0
TruncDiv(a, b) == IF a >= 0 THEN a \div b ELSE -((-a) \div b)

\* i_offset = int(x_cc(0)/0.12d0*hi), with x_cc(0)/0.12 = xq / XqDen
IOffset(xq) == TruncDiv(xq * OffsetHi, XqDen)

\* the index the emitted assignment of q_prim_vf(v) reads at local cell i
Index(v, i, xq) == Min(IOffset(xq) + i, AssignHi(v))

Sample(s, f) == disk[s][Path(f)]

\* the dataset's arrays do not all have the length of the first field
LengthMismatch ==
    /\ 0 \in DOMAIN disk
    /\ Path(1) \in DOMAIN disk[0]
    /\ \E s \in DOMAIN disk : \E p \in DOMAIN disk[s] :
           Len(disk[s][p]) # Len(Sample(0, 1))

AfterDeclPass == pc = "open_def"

\* the declaration pass is over, completed or ended by an exception: the
\* log of dataset calls is complete
PassEnded == pc \in {"open_def", "failed"}

ReadsOf(v) == {reads[k] : k \in {j \in 1..Len(reads) : reads[j].v = v}}

-----------------------------------------------------------------------------
(* Claims *)

\* C1: after the declaration pass artifact A holds, for every destination id
\* v in 1..K, one array var<v>(0:nx-1) with exactly nx literals; for v # 3
\* literal i is the dataset's sample i of the translated source id (v if
\* v < 3, else v - 1) at the ProbeIndex step, in sample order, none left out;
\* for v = 3 all nx literals are 0.0.
C1_ArraysHoldProbeSamples ==
    AfterDeclPass =>
        /\ \A v \in 1..K : Cardinality(ArrayStarts(v)) = 1
        /\ \A v \in 1..K :
               LET n == DeclHi(v) + 1
               IN  /\ Len(ArrayElems(v)) = n
                   /\ v # 3 =>
                        LET xs == Sample(ProbeIndex, IF v < 3 THEN v ELSE v - 1)
                        IN  /\ Len(xs) = n
                            /\ \A i \in 1..n : ElemIs(ArrayElems(v)[i], xs[i])
                   /\ v = 3 => \A i \in 1..n : ElemIs(ArrayElems(v)[i], 0)

\* C2: clamp property: for every v of the branch pass and every cell i, the
\* emitted access var<v>(min(i_offset + i, nx - 1)) never exceeds nx - 1, the
\* declared upper bound of var<v>, and reads sample nx - 1 once
\* i_offset + i >= nx.
C2_ClampWithinDeclaredBound ==
    pc = "done" =>
        \A v \in 1..(K - 1) : \A i \in 0..MaxCell : \A xq \in 0..MaxXq :
            /\ Index(v, i, xq) <= DeclHi(v)
            /\ IOffset(xq) + i >= DeclHi(v) + 1 => Index(v, i, xq) = DeclHi(v)

\* C3 as stated: the source id requested is v for v < 3 and v - 1 for v >= 4,
\* and no source id is requested for v = 3.
C3_NoSourceIdForThree ==
    \A k \in 1..Len(reads) :
        /\ reads[k].v # 3
        /\ reads[k].name = Name(IF reads[k].v < 3 THEN reads[k].v
                                ELSE reads[k].v - 1)

\* C3 amended: every request made while processing v (in a completed or an
\* aborted declaration pass) names source id v when
\* v < 3 and v - 1 when v >= 3 (so v = 3 requests source id 2 again); after
\* the declaration pass every v in 1..K has requested exactly one source id,
\* and the ids v # 3 map one-to-one onto the source ids 1..K-1.
C3_IdTranslation ==
    /\ PassEnded =>
           \A k \in 1..Len(reads) :
               reads[k].name = Name(IF reads[k].v < 3 THEN reads[k].v
                                    ELSE reads[k].v - 1)
    /\ AfterDeclPass =>
           LET req(v) == {r.name : r \in ReadsOf(v)}
           IN  /\ \A v \in 1..K : Cardinality(req(v)) = 1
               /\ req(3) = {Name(2)}
               /\ \A v, w \in (1..K) \ {3} : v # w => req(v) # req(w)
               /\ UNION {req(v) : v \in (1..K) \ {3}}
                      = {Name(f) : f \in 1..(K - 1)}

C3_Witness ==
    /\ AfterDeclPass
    /\ \E r \in ReadsOf(3) : r.op = "load_variable"
    /\ \E r \in ReadsOf(K) : r.name = Name(K - 1)

\* C4 as stated: while processing v = 3 the generator issues no
\* load_variable and no get_data call.
C4_NoDatasetCallForThree == ReadsOf(3) = {}

\* C4 amended: while processing v = 3 the generator calls load_variable for
\* source id 2 and get_data for its step-0 array (for the length), never the
\* ProbeIndex step; no sample is emitted: var3 is declared with the length of
\* that step-0 array and holds that many 0.0.
C4_ThreeIsZeroFilled ==
    /\ PassEnded =>
           \A r \in ReadsOf(3) :
               /\ r.name = Name(2)
               /\ r.op = "get_data" => r.step = 0
    /\ AfterDeclPass =>
           /\ Cardinality({r.op : r \in ReadsOf(3)}) = 2
           /\ Cardinality(ArrayStarts(3)) = 1
           /\ DeclHi(3) = Len(Sample(0, 2)) - 1
           /\ Len(ArrayElems(3)) = Len(Sample(0, 2))
           /\ \A i \in 1..Len(ArrayElems(3)) : ElemIs(ArrayElems(3)[i], 0)

C4_Witness ==
    /\ AfterDeclPass
    /\ Len(ArrayElems(3)) = MaxNx
    /\ Len(Sample(ProbeIndex, 2)) > 0
    /\ \A i \in 1..Len(Sample(ProbeIndex, 2)) : Sample(ProbeIndex, 2)[i] # 0

\* C5: artifact B is one branch header with tag 666, then one i_offset
\* computation, then one clamped assignment for each v in 1..K-1 in ascending
\* order, each writing q_prim_vf(v) from var<v>; none for v = K, whereas
\* artifact A declares arrays for all of 1..K.
C5_BranchLayout ==
    pc = "done" =>
        /\ Len(ArtifactB) = K + 1
        /\ ArtifactB[1] = CaseLine
        /\ \E hi \in His : ArtifactB[2] = OffsetLine(hi)
        /\ \A v \in 1..(K - 1) : AssignPositions(v) = {v + 2}
        /\ AssignPositions(K) = {}
        /\ \A v \in 1..K : Cardinality(ArrayStarts(v)) = 1

C5_Witness ==
    /\ pc = "done"
    /\ AssignPositions(1) # {}
    /\ AssignPositions(K - 1) # {}
    /\ ArrayStarts(K) # {}
    /\ Len(ArrayElems(K)) = MaxNx

\* C6: two runs against the same dataset, ProbeIndex and constants leave
\* byte-identical artifacts A and B, whatever --scale each run was given and
\* whatever the previous run left on disk.
C6_RunsAreByteIdentical ==
    (pc = "done" /\ runNo > 1) =>
        /\ prev.pc = "done"
        /\ Content(fs, DeclPath) = Content(prev.fs, DeclPath)
        /\ Content(fs, DefPath) = Content(prev.fs, DefPath)

C6_Witness ==
    /\ pc = "done"
    /\ runNo > 1
    /\ args.scale # prev.scale
    /\ Exists(DeclPath) /\ Exists(DefPath)
    /\ Len(ArrayElems(1)) = MaxNx
    /\ Len(ArtifactB) > 2

\* C7: if a requested field's sample count disagrees with nx (the first
\* field's length), generation fails: the run does not complete.
C7_MismatchAborts == pc = "done" => ~LengthMismatch

\* C8: after a run ended by a dataset-access error no partial file is left:
\* neither artifact A nor artifact B exists.
C8_NoPartialFiles ==
    pc = "failed" => (~Exists(DeclPath) /\ ~Exists(DefPath))

\* C9: one nx is used throughout: the length of source id 1's array at the
\* ProbeIndex step is the declared extent and the number of literals of every
\* var<v>, and the clamp bound and offset scale of artifact B.
C9_OneNx ==
    pc = "done" =>
        LET n == Len(Sample(ProbeIndex, 1))
        IN  /\ \A v \in 1..K : DeclHi(v) = n - 1 /\ Len(ArrayElems(v)) = n
            /\ OffsetHi = n - 1
            /\ \A v \in 1..(K - 1) : AssignHi(v) = n - 1

\* C10: for nx >= 1, every cell i >= 0 and every x_cc(0) >= 0 the index
\* min(i_offset + i, nx - 1) emitted for v in 1..K-1 lies in 0..nx-1, inside
\* the declared bounds of var<v>; for nx = 1 the index is 0 for every cell.
C10_IndexInRange ==
    (pc = "done" /\ OffsetHi + 1 >= 1) =>
        \A v \in 1..(K - 1) : \A i \in 0..MaxCell : \A xq \in 0..MaxXq :
            /\ Index(v, i, xq) \in 0..OffsetHi
            /\ Index(v, i, xq) \in 0..DeclHi(v)
            /\ OffsetHi + 1 = 1 => Index(v, i, xq) = 0

====
